---- MODULE Spec2Model ----
(***************************************************************************)
(* State-machine model of tinydraw's ImageRGB8 (src/src/image_rgb8.rs):    *)
(* an RGB8 pixel buffer with a bottom-left coordinate origin, a stored     *)
(* background, and the drawing calls set_pixel, draw_line, draw_rectangle  *)
(* and draw_rectangle_filled.                                              *)
(*                                                                         *)
(* A pixel is a triple <<r, g, b>> of values in 0..255.  image_data is a   *)
(* sequence; the code's 0-based index i is image_data[i + 1] here.         *)
(* A call that panics is modelled as a call that returns ok = FALSE and    *)
(* leaves image_data as the panic found it (what a caller that catches    *)
(* the unwind observes).                                                   *)
(*                                                                         *)
(* f64 arithmetic of draw_line is modelled by exact rational arithmetic   *)
(* on numerator/denominator pairs: the denominators are at most the       *)
(* buffer's dimensions, so a non-integer coordinate is at least 1/den     *)
(* away from an integer and the 1e-5 snap threshold, floor and ceil agree *)
(* with the floating-point evaluation.                                     *)
(***************************************************************************)
EXTENDS Integers, Sequences, FiniteSets, TLC

\* ------------------------------------------------------------------ bounds
\* Largest width and height of a constructed buffer.
MaxDim == 3
\* Largest thickness passed to draw_rectangle.
MaxThickness == 2
\* Number of drawing calls in one run (clear and get_pixel are not counted).
MaxDraws == 1
\* Width in bits of the modelled usize (stands for 64: every index of the
\* model is far below 2^UsizeBits, so a wrapped negative is out of range
\* exactly as it is with 64 bits).
UsizeBits == 16

\* ------------------------------------------------------------------ inputs
\* Colours passed to new and to the drawing calls.
Colors == {<<0, 0, 0>>, <<255, 155, 0>>}
\* from_bytes inputs: byte i (1-based) of the sequence is (seed * i) % 256.
ByteSeeds == {37, 101}
ByteSeq(seed, n) == [i \in 1..n |-> (seed * i) % 256]

\* ------------------------------------------------------------------ state
VARIABLES
    width,            \* ImageRGB8.width
    height,           \* ImageRGB8.height
    image_data,       \* ImageRGB8.image_data
    background_data,  \* ImageRGB8.background_data
    overflow_checks,  \* build: TRUE = arithmetic overflow panics (debug),
                      \* FALSE = it wraps (release)
    origin,           \* history: the constructor call that built the buffer
    last,             \* history: the last call, its arguments and outcome
    draws             \* history: number of drawing calls made

vars == <<width, height, image_data, background_data, overflow_checks,
          origin, last, draws>>

\* ----------------------------------------------------------------- helpers
min(a, b) == IF a <= b THEN a ELSE b
max(a, b) == IF a >= b THEN a ELSE b

UsizeModulus == 2 ^ UsizeBits
\* usize arithmetic without overflow checks wraps modulo 2^bits.
WrapUsize(n) == n % UsizeModulus

\* vec![c; n]
Filled(n, c) == [i \in 1..n |-> c]

\* slice[lo..hi].fill(c), 0-based half-open range lo..hi
SliceFill(img, lo, hi, c) ==
    [i \in 1..Len(img) |-> IF lo < i /\ i <= hi THEN c ELSE img[i]]

\* img[idx] = c, 0-based idx
Store(img, idx, c) == [img EXCEPT ![idx + 1] = c]

Ok(img) == [ok |-> TRUE, img |-> img]
Panic(img) == [ok |-> FALSE, img |-> img]

\* ------------------------------------------------------------ construction
\* Mutant of bytes_to_rgb8: reads the bytes as RGBA, four to a pixel.
bytes_to_rgb8_rgba(bytes) ==
    [i \in 1..(Len(bytes) \div 4) |->
        <<bytes[4 * i - 3], bytes[4 * i - 2], bytes[4 * i - 1]>>]

bytes_to_rgb8(bytes) ==
    [i \in 1..(Len(bytes) \div 3) |->
        <<bytes[3 * i - 2], bytes[3 * i - 1], bytes[3 * i]>>]

BackgroundColor(c) == [kind |-> "Color", color |-> c, img |-> <<>>]
BackgroundImage(img) == [kind |-> "Image", color |-> <<0, 0, 0>>, img |-> img]

NoCall(name) ==
    [op |-> name, x1 |-> 0, y1 |-> 0, x2 |-> 0, y2 |-> 0,
     color |-> <<0, 0, 0>>, thickness |-> 0, ok |-> TRUE,
     before |-> <<>>, result |-> <<0, 0, 0>>]

\* ImageRGB8::new(w, h, background)
new(w, h, background) ==
    /\ width = w
    /\ height = h
    /\ image_data = Filled(w * h, background)
    /\ background_data = BackgroundColor(background)
    /\ origin = [ctor |-> "new", width |-> w, height |-> h,
                 background |-> background, bytes |-> <<>>]
    /\ last = NoCall("new")

\* ImageRGB8::from_bytes(w, h, bytes), the Ok branch
from_bytes(w, h, bytes) ==
    /\ w * h * 3 = Len(bytes)
    /\ width = w
    /\ height = h
    /\ image_data = bytes_to_rgb8(bytes)
    /\ background_data = BackgroundImage(bytes_to_rgb8(bytes))
    /\ origin = [ctor |-> "from_bytes", width |-> w, height |-> h,
                 background |-> <<0, 0, 0>>, bytes |-> bytes]
    /\ last = NoCall("from_bytes")

Init ==
    /\ overflow_checks \in BOOLEAN
    /\ draws = 0
    /\ \E w \in 0..MaxDim, h \in 0..MaxDim :
          \/ \E c \in Colors : new(w, h, c)
          \/ \E seed \in ByteSeeds : from_bytes(w, h, ByteSeq(seed, w * h * 3))

\* ------------------------------------------------------------------- clear
\* Mutant of ClearImage: an Image background is not copied back.
ClearImageKeepsDrawing(bg, img) ==
    IF bg.kind = "Color" THEN Filled(Len(img), bg.color) ELSE img

ClearImage(bg, img) ==
    IF bg.kind = "Color" THEN Filled(Len(img), bg.color) ELSE bg.img

\* ------------------------------------------------------- get/set one pixel
\* Mutant of PixelIndex: top-left origin, the row is not flipped.
PixelIndexTopLeft(w, h, x, y, checks) == w * y + x

\* width * (height - 1 - y) + x as the build evaluates it: with overflow
\* checks a negative intermediate panics (-1 here), without them it wraps.
PixelIndex(w, h, x, y, checks) ==
    IF h - 1 - y < 0
    THEN IF checks THEN -1 ELSE WrapUsize(w * (h - 1 - y) + x)
    ELSE w * (h - 1 - y) + x

\* get_pixel: the value read, for in-bounds (x, y)
GetPixelValue(img, w, h, x, y) == img[w * (h - 1 - y) + x + 1]

get_pixel(img, w, h, x, y) ==
    IF x >= w \/ y >= h
    THEN [ok |-> FALSE, value |-> <<0, 0, 0>>]
    ELSE [ok |-> TRUE, value |-> GetPixelValue(img, w, h, x, y)]

\* set_pixel has no bounds check of its own: the subtraction's overflow
\* check (when compiled in) and the Vec's index check are the only guards.
set_pixel(img, w, h, x, y, color, checks) ==
    LET idx == PixelIndex(w, h, x, y, checks) IN
    IF idx < 0 \/ idx >= Len(img)
    THEN Panic(img)
    ELSE Ok(Store(img, idx, color))

\* --------------------------------------------------------------- draw_line
\* The 1e-5 of "(y - y.round()).abs() < 0.00001", as its reciprocal.
SnapReciprocal == 100000

\* f64::round of a non-negative a / d: half away from zero.
RoundDiv(a, d) == (2 * a + d) \div (2 * d)

\* One channel after "old * (1 - pct) + new * pct" with pct = part / den.
Blend(old, channel, part, den) ==
    RoundDiv(old * (den - part) + channel * part, den)

BlendPixel(old, color, part, den) ==
    [ch \in 1..3 |-> Blend(old[ch], color[ch], part, den)]

\* |v - v.round()| < 0.00001 for v = whole + r / den, 0 <= r < den
Snaps(r, den) == SnapReciprocal * min(r, den - r) < den

\* v.round() - floor(v) for v = whole + r / den
RoundUp(r, den) == IF 2 * r >= den THEN 1 ELSE 0

\* for y in y1..(y2 + 1) { image_data[width * (height - 1 - y) + x1] = color }
RECURSIVE VerticalLine(_, _, _, _, _, _, _)
VerticalLine(img, w, h, x, y, y2, color) ==
    IF y > y2 THEN img
    ELSE VerticalLine(Store(img, w * (h - 1 - y) + x, color),
                      w, h, x, y + 1, y2, color)

\* Body of the shallow loop at column x: y = slope * (x - x1) + y1.
ShallowStep(img, w, h, x1, y1, x2, y2, color, x) ==
    LET den  == x2 - x1
        num  == (y2 - y1) * (x - x1)
        q    == num \div den
        r    == num % den
        yflo == y1 + q
        ycei == IF r = 0 THEN yflo ELSE yflo + 1
    IN  IF Snaps(r, den)
        THEN Store(img, w * (h - 1 - (yflo + RoundUp(r, den))) + x, color)
        ELSE LET pix1_ind == w * (h - 1 - ycei) + x
                 pix2_ind == pix1_ind + w
             IN  [img EXCEPT
                    ![pix1_ind + 1] = BlendPixel(img[pix1_ind + 1], color, r, den),
                    ![pix2_ind + 1] = BlendPixel(img[pix2_ind + 1], color, den - r, den)]

RECURSIVE ShallowLoop(_, _, _, _, _, _, _, _, _)
ShallowLoop(img, w, h, x1, y1, x2, y2, color, x) ==
    IF x > x2 THEN img
    ELSE ShallowLoop(ShallowStep(img, w, h, x1, y1, x2, y2, color, x),
                     w, h, x1, y1, x2, y2, color, x + 1)

\* Body of the steep loop at row y: x = (y - y1) / slope + x1.
SteepStep(img, w, h, x1, y1, x2, y2, color, y) ==
    LET den  == y2 - y1
        num  == (x2 - x1) * (y - y1)
        q    == num \div den
        r    == num % den
        xflo == x1 + q
    IN  IF Snaps(r, den)
        THEN Store(img, w * (h - 1 - y) + xflo + RoundUp(r, den), color)
        ELSE LET pix1_ind == w * (h - 1 - y) + xflo
                 pix2_ind == pix1_ind + 1
             IN  [img EXCEPT
                    ![pix1_ind + 1] = BlendPixel(img[pix1_ind + 1], color, den - r, den),
                    ![pix2_ind + 1] = BlendPixel(img[pix2_ind + 1], color, r, den)]

RECURSIVE SteepLoop(_, _, _, _, _, _, _, _, _)
SteepLoop(img, w, h, x1, y1, x2, y2, color, y) ==
    IF y > y2 THEN img
    ELSE SteepLoop(SteepStep(img, w, h, x1, y1, x2, y2, color, y),
                   w, h, x1, y1, x2, y2, color, y + 1)

Abs(n) == IF n < 0 THEN -n ELSE n

draw_line(img, w, h, x1, y1, x2, y2, color) ==
    IF x1 >= w \/ x2 >= w \/ y1 >= h \/ y2 >= h
    THEN Panic(img)
    ELSE IF x1 = x2
    THEN Ok(VerticalLine(img, w, h, x1, y1, y2, color))
    ELSE IF Abs(y1 - y2) <= Abs(x1 - x2)
    THEN Ok(ShallowLoop(img, w, h, x1, y1, x2, y2, color, x1))
    ELSE Ok(SteepLoop(img, w, h, x1, y1, x2, y2, color, y1))

\* ---------------------------------------------------------- draw_rectangle
\* The two horizontal sides, rows y1 and y2, columns smaller_x..bigger_x.
HorizontalSides(img, w, h, smaller_x, bigger_x, y1, y2, color) ==
    LET top == SliceFill(img, w * (h - 1 - y1) + smaller_x,
                              w * (h - 1 - y1) + bigger_x + 1, color)
    IN  SliceFill(top, w * (h - 1 - y2) + smaller_x,
                       w * (h - 1 - y2) + bigger_x + 1, color)

\* Mutant of VerticalSides: only the side at smaller_x is drawn.
RECURSIVE VerticalSidesLeftOnly(_, _, _, _, _, _, _, _)
VerticalSidesLeftOnly(img, w, h, smaller_x, bigger_x, y, bigger_y, color) ==
    IF y > bigger_y THEN img
    ELSE LET base_location == w * (h - 1 - y) IN
         VerticalSidesLeftOnly(
             Store(img, base_location + smaller_x, color),
             w, h, smaller_x, bigger_x, y + 1, bigger_y, color)

\* for y in smaller_y..(bigger_y + 1): the pixels at smaller_x and bigger_x
RECURSIVE VerticalSides(_, _, _, _, _, _, _, _)
VerticalSides(img, w, h, smaller_x, bigger_x, y, bigger_y, color) ==
    IF y > bigger_y THEN img
    ELSE LET base_location == w * (h - 1 - y) IN
         VerticalSides(
             Store(Store(img, base_location + smaller_x, color),
                   base_location + bigger_x, color),
             w, h, smaller_x, bigger_x, y + 1, bigger_y, color)

RECURSIVE draw_rectangle(_, _, _, _, _, _, _, _, _, _)
draw_rectangle(img, w, h, x1, y1, x2, y2, color, thickness, checks) ==
    LET smaller_x == min(x1, x2)
        bigger_x  == max(x1, x2)
        smaller_y == min(y1, y2)
        bigger_y  == max(y1, y2)
    IN  IF x1 >= w \/ x2 >= w \/ y1 >= h \/ y2 >= h
        THEN Panic(img)
        ELSE IF thickness > ((bigger_x - smaller_x) \div 2) + 1
        THEN Panic(img)
        ELSE LET drawn ==
                   VerticalSides(
                       HorizontalSides(img, w, h, smaller_x, bigger_x, y1, y2, color),
                       w, h, smaller_x, bigger_x, smaller_y, bigger_y, color)
             IN  IF thickness > 1
                 THEN IF checks /\ (bigger_x - 1 < 0 \/ bigger_y - 1 < 0)
                      THEN Panic(drawn)   \* "attempt to subtract with overflow"
                      ELSE draw_rectangle(drawn, w, h,
                                          smaller_x + 1, smaller_y + 1,
                                          WrapUsize(bigger_x - 1),
                                          WrapUsize(bigger_y - 1),
                                          color, thickness - 1, checks)
                 ELSE Ok(drawn)

\* --------------------------------------------------- draw_rectangle_filled
\* Mutant of FillRows: the run excludes bigger_x (a half-open range).
RECURSIVE FillRowsHalfOpen(_, _, _, _, _, _, _, _)
FillRowsHalfOpen(img, w, h, smaller_x, bigger_x, y, bigger_y, color) ==
    IF y > bigger_y THEN img
    ELSE LET base_location == w * (h - 1 - y) IN
         FillRowsHalfOpen(SliceFill(img, base_location + smaller_x,
                                         base_location + bigger_x, color),
                          w, h, smaller_x, bigger_x, y + 1, bigger_y, color)

RECURSIVE FillRows(_, _, _, _, _, _, _, _)
FillRows(img, w, h, smaller_x, bigger_x, y, bigger_y, color) ==
    IF y > bigger_y THEN img
    ELSE LET base_location == w * (h - 1 - y) IN
         FillRows(SliceFill(img, base_location + smaller_x,
                                 base_location + bigger_x + 1, color),
                  w, h, smaller_x, bigger_x, y + 1, bigger_y, color)

draw_rectangle_filled(img, w, h, x1, y1, x2, y2, color) ==
    IF x1 >= w \/ x2 >= w \/ y1 >= h \/ y2 >= h
    THEN Panic(img)
    ELSE Ok(FillRows(img, w, h, min(x1, x2), max(x1, x2),
                     min(y1, y2), max(y1, y2), color))

\* ----------------------------------------------------------------- actions
\* Coordinates passed by a caller: every in-bounds value and one beyond.
Xs == 0..width
Ys == 0..height
Thicknesses == 0..MaxThickness

Call(name, x1, y1, x2, y2, color, thickness, ok, result) ==
    [op |-> name, x1 |-> x1, y1 |-> y1, x2 |-> x2, y2 |-> y2,
     color |-> color, thickness |-> thickness, ok |-> ok,
     before |-> image_data, result |-> result]

Fixed == UNCHANGED <<width, height, background_data, overflow_checks, origin>>

Clear ==
    /\ image_data' = ClearImage(background_data, image_data)
    /\ last' = Call("clear", 0, 0, 0, 0, <<0, 0, 0>>, 0, TRUE, <<0, 0, 0>>)
    /\ UNCHANGED draws
    /\ Fixed

GetPixel ==
    \E x \in Xs, y \in Ys :
        LET r == get_pixel(image_data, width, height, x, y) IN
        /\ last' = Call("get_pixel", x, y, 0, 0, <<0, 0, 0>>, 0, r.ok, r.value)
        /\ UNCHANGED <<image_data, draws>>
        /\ Fixed

SetPixel ==
    /\ draws < MaxDraws
    /\ \E x \in Xs, y \in Ys, color \in Colors :
        LET r == set_pixel(image_data, width, height, x, y, color, overflow_checks) IN
        /\ image_data' = r.img
        /\ last' = Call("set_pixel", x, y, 0, 0, color, 0, r.ok, <<0, 0, 0>>)
    /\ draws' = draws + 1
    /\ Fixed

DrawLine ==
    /\ draws < MaxDraws
    /\ \E x1 \in Xs, y1 \in Ys, x2 \in Xs, y2 \in Ys, color \in Colors :
        LET r == draw_line(image_data, width, height, x1, y1, x2, y2, color) IN
        /\ image_data' = r.img
        /\ last' = Call("draw_line", x1, y1, x2, y2, color, 0, r.ok, <<0, 0, 0>>)
    /\ draws' = draws + 1
    /\ Fixed

DrawRectangle ==
    /\ draws < MaxDraws
    /\ \E x1 \in Xs, y1 \in Ys, x2 \in Xs, y2 \in Ys, color \in Colors,
          thickness \in Thicknesses :
        LET r == draw_rectangle(image_data, width, height, x1, y1, x2, y2,
                                color, thickness, overflow_checks) IN
        /\ image_data' = r.img
        /\ last' = Call("draw_rectangle", x1, y1, x2, y2, color, thickness,
                        r.ok, <<0, 0, 0>>)
    /\ draws' = draws + 1
    /\ Fixed

DrawRectangleFilled ==
    /\ draws < MaxDraws
    /\ \E x1 \in Xs, y1 \in Ys, x2 \in Xs, y2 \in Ys, color \in Colors :
        LET r == draw_rectangle_filled(image_data, width, height,
                                       x1, y1, x2, y2, color) IN
        /\ image_data' = r.img
        /\ last' = Call("draw_rectangle_filled", x1, y1, x2, y2, color, 0,
                        r.ok, <<0, 0, 0>>)
    /\ draws' = draws + 1
    /\ Fixed

Next ==
    \/ Clear
    \/ GetPixel
    \/ SetPixel
    \/ DrawLine
    \/ DrawRectangle
    \/ DrawRectangleFilled

Spec == Init /\ [][Next]_vars

\* ================================================================= claims
\* Vocabulary of the claims: the pixel at logical (x, y) of an image of the
\* buffer's dimensions, by the documented mapping width*(height-1-y)+x.
PixelAt(img, x, y) == img[width * (height - 1 - y) + x + 1]
Columns == 0..(width - 1)
Rows == 0..(height - 1)
DrawingOps == {"set_pixel", "draw_line", "draw_rectangle", "draw_rectangle_filled"}
\* All four corner coordinates of the last call are inside the buffer.
CornersInBounds ==
    /\ last.x1 < width /\ last.x2 < width
    /\ last.y1 < height /\ last.y2 < height
InBox(x, y) ==
    /\ min(last.x1, last.x2) <= x /\ x <= max(last.x1, last.x2)
    /\ min(last.y1, last.y2) <= y /\ y <= max(last.y1, last.y2)
OnPerimeter(x, y) ==
    \/ x = min(last.x1, last.x2) \/ x = max(last.x1, last.x2)
    \/ y = min(last.y1, last.y2) \/ y = max(last.y1, last.y2)
\* The background the constructor call fixed: the fill colour everywhere, or
\* pixel i made of bytes 3i, 3i+1, 3i+2 (0-based) of the original bytes.
OriginPixels ==
    [i \in 1..(origin.width * origin.height) |->
        IF origin.ctor = "new"
        THEN origin.background
        ELSE <<origin.bytes[3 * (i - 1) + 1], origin.bytes[3 * (i - 1) + 2],
               origin.bytes[3 * (i - 1) + 3]>>]

\* C1: after any sequence of calls, clear() leaves every pixel equal to the
\* background fixed at construction (the fill colour, or the pixels decoded
\* from the original bytes), and no call ever changes the stored background.
C1_ClearRestoresBackground ==
    /\ last.op = "clear" => image_data = OriginPixels
    /\ background_data = IF origin.ctor = "new"
                         THEN BackgroundColor(origin.background)
                         ELSE BackgroundImage(OriginPixels)

\* C1 witness: clear() has just undone a drawing on a buffer built from bytes.
C1_Witness ==
    /\ last.op = "clear"
    /\ draws > 0
    /\ last.before # image_data
    /\ origin.ctor = "from_bytes"

\* C2: a get_pixel, set_pixel, draw_line or draw_rectangle call with some
\* x >= width or some y >= height fails and leaves the pixels as they were.
C2_OutOfBoundsFails ==
    LET one  == last.op \in {"get_pixel", "set_pixel"}
        four == last.op \in {"draw_line", "draw_rectangle"}
        out  == \/ last.x1 >= width \/ last.y1 >= height
                \/ (four /\ (last.x2 >= width \/ last.y2 >= height))
    IN  (one \/ four) /\ out => ~last.ok /\ image_data = last.before

\* C3: whenever a drawing call fails, the pixels equal their values before
\* the call (no failure after a pixel has been written).
C3_FailureLeavesBufferUnchanged ==
    last.op \in DrawingOps /\ ~last.ok => image_data = last.before

\* C4: after set_pixel(x, y, c) with x < width and y < height, get_pixel(x, y)
\* returns c, the pixel written is the one at linear index
\* width*(height-1-y)+x, and every other pixel is unchanged.
C4_SetThenGet ==
    last.op = "set_pixel" /\ last.x1 < width /\ last.y1 < height =>
        /\ last.ok
        /\ get_pixel(image_data, width, height, last.x1, last.y1)
             = [ok |-> TRUE, value |-> last.color]
        /\ Len(image_data) = Len(last.before)
        /\ \A i \in 1..Len(image_data) :
             image_data[i] =
                IF i - 1 = width * (height - 1 - last.y1) + last.x1
                THEN last.color
                ELSE last.before[i]

\* C4 witness: an in-bounds set_pixel that changed a pixel of a buffer with
\* several rows and columns, away from the middle row.
C4_Witness ==
    /\ last.op = "set_pixel"
    /\ last.x1 < width /\ last.y1 < height
    /\ width > 1 /\ height > 1
    /\ last.y1 # height - 1 - last.y1
    /\ image_data # last.before

\* C5: draw_rectangle_filled with in-bounds corners in any order succeeds,
\* every pixel of the closed bounding box equals color and every pixel
\* outside it keeps its previous value.
C5_FilledRectangle ==
    last.op = "draw_rectangle_filled" /\ CornersInBounds =>
        /\ last.ok
        /\ Len(image_data) = Len(last.before)
        /\ \A x \in Columns, y \in Rows :
             PixelAt(image_data, x, y) =
                IF InBox(x, y) THEN last.color ELSE PixelAt(last.before, x, y)

\* C5 witness: a filled rectangle given from its top-right corner that changed the buffer and left a pixel outside the box.
C5_Witness ==
    /\ last.op = "draw_rectangle_filled"
    /\ CornersInBounds
    /\ last.x1 > last.x2 /\ last.y1 > last.y2
    /\ image_data # last.before
    /\ \E x \in Columns, y \in Rows : ~InBox(x, y)

\* C6: draw_rectangle with thickness 1 and in-bounds corners in any order sets
\* to color exactly the perimeter pixels of the bounding box and leaves every
\* strictly interior pixel and every pixel outside the box unchanged.
C6_RectanglePerimeter ==
    last.op = "draw_rectangle" /\ last.thickness = 1 /\ CornersInBounds =>
        /\ last.ok
        /\ Len(image_data) = Len(last.before)
        /\ \A x \in Columns, y \in Rows :
             PixelAt(image_data, x, y) =
                IF InBox(x, y) /\ OnPerimeter(x, y)
                THEN last.color
                ELSE PixelAt(last.before, x, y)

\* C6 witness: a thickness-1 rectangle given from its top-right corner whose
\* box has an interior pixel of another colour.
C6_Witness ==
    /\ last.op = "draw_rectangle" /\ last.thickness = 1
    /\ CornersInBounds
    /\ last.x1 > last.x2 /\ last.y1 > last.y2
    /\ \E x \in Columns, y \in Rows :
          /\ InBox(x, y) /\ ~OnPerimeter(x, y)
          /\ PixelAt(image_data, x, y) # last.color

\* C7: draw_line(x, y1, x, y2, color) with in-bounds x, y1, y2 sets every
\* pixel of column x from row y1 to row y2 inclusive, both endpoints
\* included, to color and leaves every other pixel unchanged.
C7_VerticalLine ==
    last.op = "draw_line" /\ CornersInBounds /\ last.x1 = last.x2 =>
        /\ last.ok
        /\ \A x \in Columns, y \in Rows :
             PixelAt(image_data, x, y) =
                IF InBox(x, y) THEN last.color ELSE PixelAt(last.before, x, y)

\* C8: the pixel array has exactly width*height entries, width and height
\* are those of the construction, and a Snapshot (Image) background has
\* exactly width*height entries.
C8_Dimensions ==
    /\ Len(image_data) = width * height
    /\ width = origin.width
    /\ height = origin.height
    /\ background_data.kind = "Image" =>
          Len(background_data.img) = width * height

\* C8 witness: a drawing call has just failed on a buffer of several pixels
\* built from bytes.
C8_Witness ==
    /\ last.op \in DrawingOps
    /\ ~last.ok
    /\ origin.ctor = "from_bytes"
    /\ width * height > 1

\* C9: draw_rectangle with in-bounds corners and
\* thickness <= (|x2-x1| / 2) + 1 runs its recursive inset to completion
\* without failure.
C9_InsetCompletes ==
    /\ last.op = "draw_rectangle"
    /\ CornersInBounds
    /\ last.thickness <= (Abs(last.x2 - last.x1) \div 2) + 1
    => last.ok

\* The pixel the shallow rule of C10 prescribes at (x, y): with exact
\* yy = y1 + (y2-y1)*(x-x1)/(x2-x1) = whole + r/den, the colour itself when yy
\* is an integer and y = yy; round(old*(1-w) + color*w) with w = yy - floor(yy)
\* at y = ceil(yy) and w = 1 - (yy - floor(yy)) at y = floor(yy); else old.
ShallowPixel(x, y) ==
    LET sgn   == IF last.x2 > last.x1 THEN 1 ELSE -1
        den   == sgn * (last.x2 - last.x1)
        num   == sgn * (last.y2 - last.y1) * (x - last.x1)
        whole == last.y1 + (num \div den)
        r     == num % den
        old   == PixelAt(last.before, x, y)
        mix(part) ==
            [ch \in 1..3 |->
                (2 * (old[ch] * (den - part) + last.color[ch] * part) + den)
                    \div (2 * den)]
    IN  IF x < min(last.x1, last.x2) \/ x > max(last.x1, last.x2) THEN old
        ELSE IF r = 0 THEN (IF y = whole THEN last.color ELSE old)
        ELSE IF y = whole + 1 THEN mix(r)
        ELSE IF y = whole THEN mix(den - r)
        ELSE old

\* C10: for in-bounds endpoints with x1 # x2 and |y1-y2| <= |x1-x2|, draw_line
\* writes, for every column x from x1 to x2 inclusive, the pixel (x, y) when
\* the exact y is an integer and otherwise the blended pair (x, ceil y),
\* (x, floor y); every other pixel is unchanged.
C10_ShallowLine ==
    /\ last.op = "draw_line"
    /\ CornersInBounds
    /\ last.x1 # last.x2
    /\ Abs(last.y1 - last.y2) <= Abs(last.x1 - last.x2)
    => /\ last.ok
       /\ \A x \in Columns, y \in Rows :
             PixelAt(image_data, x, y) = ShallowPixel(x, y)

\* ------------------------------------------------ what the code does instead
\* The statements of C7 and C10 restricted to endpoints in ascending order
\* (y1 <= y2 for a vertical line, x1 < x2 for a shallow one): the loops
\* "for y in y1..(y2 + 1)" and "for x in x1..(x2 + 1)" are empty otherwise.
VerticalLineAscending ==
    last.y1 <= last.y2 => C7_VerticalLine
ShallowLineAscending ==
    last.x1 < last.x2 => C10_ShallowLine
\* With the endpoints in descending order a line call succeeds and draws
\* nothing at all.
DescendingLineDrawsNothing ==
    /\ last.op = "draw_line" /\ CornersInBounds
    /\ \/ last.x1 = last.x2 /\ last.y1 > last.y2
       \/ last.x1 > last.x2 /\ Abs(last.y1 - last.y2) <= Abs(last.x1 - last.x2)
       \/ last.y1 > last.y2 /\ Abs(last.y1 - last.y2) > Abs(last.x1 - last.x2)
    => last.ok /\ image_data = last.before
\* Apart from set_pixel, an out-of-bounds coordinate is rejected before any
\* write; and apart from draw_rectangle with thickness > 1, a failed drawing
\* call has written nothing.
OutOfBoundsFailsExceptSetPixel ==
    last.op # "set_pixel" => C2_OutOfBoundsFails
FailureUnchangedExceptThickRectangle ==
    ~(last.op = "draw_rectangle" /\ last.thickness > 1)
        => C3_FailureLeavesBufferUnchanged

====
